---- MODULE Spec2Model ----
(***************************************************************************)
(* Credential and session lifecycle of the LINE WORKS relay bot.           *)
(*                                                                         *)
(*   src/app/salesforce_client.py  SalesforceClient: the backend token     *)
(*       (_access_token, _instance_url, _token_expires_at, _token_lock),   *)
(*       _request with its retry loop, the session cache and the sequence  *)
(*       counter kept in Redis.                                            *)
(*   src/app/main.py  get_access_token / send_message_to_user: the         *)
(*       platform token kept in Redis and the delivery retry loop.         *)
(*   src/app/salesforce_client.py  start_agent_session,                    *)
(*       send_sync_message_to_agent, end_agent_session: the cached         *)
(*       session and its sequence counter.                                 *)
(*                                                                         *)
(* One process, several asyncio tasks.  A task runs without interruption   *)
(* from one await of I/O to the next, so every action below is one such    *)
(* segment: it completes the I/O the task is suspended on (pc names it)    *)
(* and runs the code up to the next await.  The program is written as      *)
(* state transformers over a record S that bundles the mutable state; an   *)
(* action applies one transformer and commits the result.                  *)
(*                                                                         *)
(* A token, instance url, session id or session key is a positive integer  *)
(* (the n-th one issued); 0 stands for None / a missing Redis key.         *)
(***************************************************************************)
EXTENDS Integers, Sequences, FiniteSets, TLC

\* ---- bounds of the model ----
NumTasks == 2
MaxTokens == 2
MaxLwTokens == 4
MaxTicks == 1
MaxCallsBackend == 3
MaxCallsPlatform == 2
MaxCallsSession == 3
MaxCallsSeq == 4
MaxCallsCallback == 1
MaxCallsOutage == 2
MaxCallsVerify == 2
MaxCallsLock == 2
MaxFragments == 3
MaxSessions == 2
TickLen == 3600
TickShort == 3570
StartTime == 1000

\* ---- program constants ----
token_cache_padding == 300
max_retries == 2
retry_delay_base == 1
RETRY_COUNT_MAX == 3
RETRY_WAIT_BASE == 1
expires_in == 3600
lw_margin == 60
lw_ttl_extra == 300
session_ttl == 3600

Tasks == 1..NumTasks
SessionIds == 1..MaxSessions

VARIABLES
    access_token,       \* SalesforceClient._access_token (0 = None)
    instance_url,       \* SalesforceClient._instance_url (0 = None)
    token_expires_at,   \* SalesforceClient._token_expires_at
    lockHolder,         \* _token_lock: the task holding it (0 = unlocked)
    lockWaiters,        \* _token_lock: FIFO queue of waiting tasks
    task,               \* per task: position and locals of the running coroutine
    now,                \* time.time()
    ticks,              \* number of clock advances so far
    nextToken,          \* token endpoint: the next token it will issue
    invalidated,        \* history: backend tokens cleared after a 401/403
    gvtSeq,             \* history: 0 no invalidation yet, 1 invalidated and no
                        \* _get_valid_access_token call started since, 2 otherwise
    scope,              \* the run: the public entry points its tasks call,
                        \* "concurrent" when calls overlap, "redis_errors"
                        \* when Redis commands can fail
    opsLeft,            \* number of calls of public entry points still to come
    lwTok,              \* Redis key lw_bot:access_token, [v, ttl]
    lwExp,              \* Redis key lw_bot:expires_at, [v, ttl]
    nextLwToken,        \* platform token endpoint: the next token it will issue
    lwInvalidated,      \* history: platform tokens deleted after an auth error
    lwSeq,              \* history: as gvtSeq, for get_access_token
    sessKey,            \* Redis key sf_agent:session_key:{agent_id}:{user_id}
    sessId,             \* Redis key sf_agent:session_id:{agent_id}:{user_id}
    seqKey,             \* Redis keys sf_agent:seq:{session_id}, by session id
    nextKey,            \* uuid4(): the next session key drawn
    created,            \* the new sessions start_agent_session has returned
    used,               \* history: per session, the sequenceIds its calls took
    ended,              \* history: sessions whose end_agent_session returned
    evaluated           \* the last evaluation of a pure computation: which,
                        \* its argument, its value

backendVars == <<access_token, instance_url, token_expires_at, lockHolder,
                 lockWaiters, nextToken, invalidated, gvtSeq>>
platformVars == <<lwTok, lwExp, nextLwToken, lwInvalidated, lwSeq>>
sessionVars == <<sessKey, sessId, seqKey, nextKey, created, used, ended>>
vars == <<backendVars, platformVars, sessionVars, task, now, ticks, scope, opsLeft,
          evaluated>>

NoEvaluation == [fn |-> "none", arg |-> <<>>, val |-> <<>>]

\* ---- Redis keys: a value (0 = no key) and the time the key expires (0 = never) ----
\* "by" is history: the token of the refresh that wrote an expiry record.
NoKey == [v |-> 0, ttl |-> 0, by |-> 0]
Live(k, time) == k.v # 0 /\ (k.ttl = 0 \/ time < k.ttl)
\* GET
RGet(k) == IF Live(k, now) THEN k.v ELSE 0
\* SET without EX: the value, and any TTL dropped
RSet(v) == [v |-> v, ttl |-> 0, by |-> 0]
\* EXPIRE: no effect on a missing key
RExpire(k, secs) == IF Live(k, now) THEN [k EXCEPT !.ttl = now + secs] ELSE NoKey

\* A Redis command succeeds (TRUE) or raises (FALSE); in a run with Redis
\* down every command raises.
RedisOutcomes ==
    CASE "redis_down" \in scope -> {FALSE}
      [] "redis_errors" \in scope -> BOOLEAN
      [] OTHER -> {TRUE}

\* Outcomes of the POST to the token endpoint (_refresh_access_token).
RefreshOutcomes == {"ok", "http_error", "request_error", "invalid_body"}

\* Outcomes of one HTTP attempt of _request: a response that passes
\* raise_for_status, an HTTPStatusError, a RequestError, any other exception.
ApiOutcomes == {"ok200", "ok204", "bad200", "e401", "e403", "e500", "net", "exc"}
HttpErrors == {"e401", "e403", "e500"}

\* The locals of callback(): whether it runs, the verification mode and the
\* signature header it was called with (kept in a run that records the
\* requests), how the signature check went, how the summarizer ended,
\* summarized_text and the text given to send_sync_message_to_agent (kept
\* in a run that records the texts),
\* the kind of event, whether the text holds a termination phrase,
\* session_id (0 = not assigned), reply_to_send, what
\* send_sync_message_to_agent returned, the content handed to
\* send_message_to_user and what that returned, the status of the HTTP
\* answer, and how often each step was called.
NoCallback ==
    [stage |-> "none", mode |-> "none", signature |-> "none",
     sig |-> "none", event |-> "none", phrase |-> FALSE,
     summarizer |-> "none", text |-> "none", sent |-> "none",
     session_id |-> 0, reply |-> "none", agent |-> "none", content |-> "none",
     delivery |-> "none", http |-> 0,
     nStart |-> 0, nSend |-> 0, nCompose |-> 0, nDeliver |-> 0, nEnd |-> 0]

\* No Retry-After header has been read.
NoHint == [kind |-> "none", n |-> 0]

\* A coroutine that is not running.
IdleRec ==
    [pc |-> "idle", op |-> "none", ctx |-> "none", tok |-> 0, attempt |-> 0,
     last |-> "none", result |-> "none",
     gval |-> 0, gfrom |-> "none", gsnap |-> {}, gord |-> 0, waited |-> FALSE,
     rejTok |-> 0, nAuth |-> 0, reqRet |-> "pending",
     ct |-> 0, rtok |-> 0, newTok |-> 0, hint |-> NoHint, wait |-> 0,
     sid |-> 0, k |-> 0, ck |-> 0, seqv |-> 0, rsid |-> 0,
     held |-> <<0, 0>>, path |-> "none", esnap |-> {}, redisErr |-> FALSE,
     leftover |-> FALSE, cb |-> NoCallback]

\* The mutable state, with task t's record as S.rec.
Cur(t) ==
    [rec |-> task[t], tok |-> access_token, inst |-> instance_url,
     exp |-> token_expires_at, holder |-> lockHolder, waiters |-> lockWaiters,
     ntok |-> nextToken, inval |-> invalidated, seq |-> gvtSeq,
     lwTok |-> lwTok, lwExp |-> lwExp, nlw |-> nextLwToken,
     lwInval |-> lwInvalidated, lwSeq |-> lwSeq,
     sessKey |-> sessKey, sessId |-> sessId, seqKey |-> seqKey,
     nkey |-> nextKey, created |-> created, used |-> used, ended |-> ended,
     ok |-> TRUE]

\* S.ok is FALSE when the step would need an identifier beyond the bounds.
CommitRec(S, t) ==
    /\ S.ok
    /\ task' = [task EXCEPT ![t] = S.rec]
    /\ access_token' = S.tok
    /\ instance_url' = S.inst
    /\ token_expires_at' = S.exp
    /\ lockHolder' = S.holder
    /\ lockWaiters' = S.waiters
    /\ nextToken' = S.ntok
    /\ invalidated' = S.inval
    /\ gvtSeq' = S.seq
    /\ lwTok' = S.lwTok
    /\ lwExp' = S.lwExp
    /\ nextLwToken' = S.nlw
    /\ lwInvalidated' = S.lwInval
    /\ lwSeq' = S.lwSeq
    /\ sessKey' = S.sessKey
    /\ sessId' = S.sessId
    /\ seqKey' = S.seqKey
    /\ nextKey' = S.nkey
    /\ created' = S.created
    /\ used' = S.used
    /\ ended' = S.ended

\* A task calls a public entry point.
Begin(S, t) ==
    /\ opsLeft > 0
    /\ CommitRec(S, t)
    /\ opsLeft' = opsLeft - 1
    /\ UNCHANGED <<now, ticks, scope, evaluated>>

Commit(S, t) ==
    /\ CommitRec(S, t)
    /\ UNCHANGED <<now, ticks, scope, opsLeft, evaluated>>

\* ---- _token_lock (asyncio.Lock): FIFO, handed to the first waiter ----
\* LockReleaseNever is the faulty variant that leaves the lock held.
LockReleaseNever(S) == S

LockRelease(S) ==
    IF S.waiters = <<>>
    THEN [S EXCEPT !.holder = 0]
    ELSE [S EXCEPT !.holder = Head(S.waiters), !.waiters = Tail(S.waiters)]

\* Lock.acquire() returns at once when the lock is not held (no task holds
\* it and none waits for it).  LockFreeAlways is the faulty variant in which
\* the lock is never seen as held.
LockFreeAlways(holder) == TRUE
LockFree(holder) == holder = 0

\* ---- _get_valid_access_token ----
\* The cache test: self._access_token and current_time < self._token_expires_at
TokenValid(tok, exp, time) == tok # 0 /\ time < exp

\* The same test made again once the lock is held.  RecheckSkipped is the
\* faulty variant that goes on to the refresh without it.
RecheckSkipped(tok, exp, time) == FALSE
Recheck(tok, exp, time) == TokenValid(tok, exp, time)

RECURSIVE GvtEnter(_, _, _)
RECURSIVE GvtReturn(_, _, _, _)
RECURSIVE RequestEnter(_, _)
RECURSIVE RequestReturn(_, _, _)
RECURSIVE AfterPrelude(_, _)

\* The history of the last token call is kept for one step after it returned.
ClearHistory(S) ==
    [S EXCEPT !.rec.gval = 0, !.rec.gfrom = "none", !.rec.gsnap = {}, !.rec.gord = 0,
              !.rec.waited = FALSE]

\* The coroutine of the public method returns.
\* Its locals are gone; the history of the call stays until the caller
\* takes the result.
OpReturn(S, result) ==
    LET r == S.rec
        Base == [IdleRec EXCEPT !.pc = IF r.cb.stage = "none" THEN "done"
                                      ELSE "cb_ret",
                                !.op = r.op, !.result = result, !.cb = r.cb]
    IN  [S EXCEPT !.rec =
            IF r.op \in {"query", "deliver"}
            THEN [Base EXCEPT !.gval = r.gval, !.gfrom = r.gfrom,
                              !.gsnap = r.gsnap, !.gord = r.gord,
                              !.attempt = r.attempt, !.nAuth = r.nAuth,
                              !.reqRet = r.reqRet,
                              !.last = IF "causes" \in scope THEN r.last ELSE "none"]
            ELSE [Base EXCEPT !.sid = r.sid, !.held = r.held, !.esnap = r.esnap,
                              !.redisErr = r.redisErr, !.rsid = r.rsid,
                              !.path = r.path]]

\* start_agent_session after _request: a 200 whose body carries a sessionId
\* goes on to cache_session, anything else returns None.
StartResponse(S, resp) ==
    IF resp = "ok200"
    THEN [S EXCEPT !.rec.pc = "cs_set_key", !.rec.rsid = S.rec.k,
                   !.rec.path = "created"]
    ELSE OpReturn([S EXCEPT !.rec.path = "failed"], "none")

\* send_sync_message_to_agent after _request: the JSON of a 200, the JSON of
\* an error response, or None.
SendResponse(S, resp) ==
    OpReturn(S, CASE resp = "ok200" -> "reply"
                  [] resp \in HttpErrors -> "error_body"
                  [] OTHER -> "none")

\* status_code == 204 or status_code == 200
EndAccepted(resp) == resp \in {"ok200", "ok204", "bad200"}

\* end_agent_session returns; which session records are left is noted.
EndReturn(S, result) ==
    [OpReturn(S, result) EXCEPT
        !.rec.leftover = \/ Live(S.sessKey, now) \/ Live(S.sessId, now)
                         \/ Live(S.seqKey[S.rec.sid], now),
        !.ended = @ \cup {S.rec.sid}]

\* end_agent_session after _request: the cache is cleaned after a 204 or 200.
EndResponse(S, resp) ==
    IF EndAccepted(resp)
    THEN [S EXCEPT !.rec.pc = "dcs_seq"]
    ELSE EndReturn(S, "false")

\* _request after the token: build the headers once and send attempt 0.
HttpSend(S, val) ==
    [S EXCEPT !.rec.pc = "http", !.rec.tok = val, !.rec.attempt = 0,
              !.rec.last = "none", !.rec.rejTok = 0,
              !.rec.nAuth = 0, !.rec.reqRet = "pending"]

\* Entry of _get_valid_access_token, called from ctx ("prelude": the
\* instance-url check of a public method, "request": _request).
GvtEnter(S, ctx, t) ==
    LET S1 == [S EXCEPT !.rec.ctx = ctx, !.rec.gsnap = S.inval, !.rec.gord = S.seq,
                        !.rec.gfrom = "none", !.rec.gval = 0,
                        !.rec.waited = FALSE,
                        !.seq = IF S.seq = 1 THEN 2 ELSE S.seq]
    IN  IF TokenValid(S.tok, S.exp, now)
        THEN GvtReturn(S1, S.tok, "cache", t)
        ELSE IF LockFree(S1.holder)
             THEN \* lock free: taken at once, the re-check misses again, POST
                  [S1 EXCEPT !.holder = t, !.rec.pc = "refresh"]
             ELSE [S1 EXCEPT !.waiters = Append(@, t), !.rec.pc = "lock_wait",
                             !.rec.waited = TRUE]

\* _get_valid_access_token returns val to its caller (lock already released).
GvtReturn(S, val, from, t) ==
    LET S1 == [S EXCEPT !.rec.gval = val, !.rec.gfrom = from]
    IN  IF S.rec.ctx = "prelude"
        THEN IF S1.inst = 0
             THEN OpReturn([S1 EXCEPT !.rec.path = "no_instance_url"], "none")
             ELSE AfterPrelude(S1, t)
        ELSE IF val = 0
             THEN RequestReturn([S1 EXCEPT !.rec.reqRet = "none"], "none", t)
             ELSE HttpSend(S1, val)

RequestEnter(S, t) == GvtEnter(S, "request", t)

\* The public method continues after its instance-url check.
AfterPrelude(S, t) ==
    CASE S.rec.op = "query" -> RequestEnter(S, t)
      [] S.rec.op = "start" -> [S EXCEPT !.rec.pc = "gcs_key"]

\* _request returns resp ("none" or the response) to the public method.
RequestReturn(S, resp, t) ==
    CASE S.rec.op = "query" -> OpReturn(S, "none")
      [] S.rec.op = "start" -> StartResponse(S, resp)
      [] S.rec.op = "send" -> SendResponse(S, resp)
      [] S.rec.op = "end" -> EndResponse(S, resp)

\* ---- _request: the retry loop ----
\* attempt < self.max_retries.  RetryAllowedOneMore is the faulty variant
\* that allows one more attempt.
RetryAllowedOneMore(attempt) == attempt <= max_retries
RetryAllowed(attempt) == attempt < max_retries

\* return last_exception.response if it is an HTTPStatusError, else None
LastResponse(last) == IF last \in HttpErrors THEN last ELSE "none"

\* wait_time = self.retry_delay_base * (2**attempt).  RetryWaitConstant is
\* the faulty variant without the back-off.
RetryWaitConstant(attempt) == retry_delay_base
RetryWait(attempt) == retry_delay_base * 2^attempt

\* After a failed attempt: sleep and retry, or leave the loop and return.
\* last_exception is assigned again before the loop can be left: it is kept
\* during the sleep, and after the return, only in a run that follows the
\* cause of each wait.
AfterError(S, t) ==
    IF RetryAllowed(S.rec.attempt)
    THEN [S EXCEPT !.rec.pc = "sleep",
                   !.rec.last = IF "causes" \in scope THEN @ ELSE "none",
                   !.rec.wait = RetryWait(S.rec.attempt)]
    ELSE RequestReturn([S EXCEPT !.rec.reqRet = LastResponse(S.rec.last)],
                       LastResponse(S.rec.last), t)

\* The body of "async with self._token_lock" on a 401/403.
\* status_code in [401, 403]
IsAuthError(o) == o \in {"e401", "e403"}

\* ClearTokenKeepsToken is the faulty variant of ClearToken that leaves the
\* token, its expiry and the instance url in place.
ClearTokenKeepsToken(S) ==
    [S EXCEPT !.inval = @ \cup ({S.tok, S.rec.tok} \ {0}), !.seq = 1]

\* ClearTokenKeepsUrl is the faulty variant that forgets the instance url.
ClearTokenKeepsUrl(S) ==
    [S EXCEPT !.tok = 0, !.exp = 0,
              !.inval = @ \cup ({S.tok, S.rec.tok} \ {0}),
              !.seq = 1]

ClearToken(S) ==
    [S EXCEPT !.tok = 0, !.exp = 0, !.inst = 0,
              !.inval = @ \cup ({S.tok, S.rec.tok} \ {0}),
              !.seq = 1]

\* ---- actions ----
\* query(): the instance-url check, then _request.
BeginQuery(t) ==
    /\ "query" \in scope
    /\ task[t].pc = "idle"
    /\ LET S == [Cur(t) EXCEPT !.rec.op = "query"]
       IN  Begin(IF S.inst = 0 THEN GvtEnter(S, "prelude", t) ELSE RequestEnter(S, t), t)

\* A waiter of _get_valid_access_token gets the lock: re-check, else POST.
LockAcquired(t) ==
    /\ task[t].pc = "lock_wait"
    /\ lockHolder = t
    /\ LET S == Cur(t)
       IN  Commit(IF Recheck(S.tok, S.exp, now)
                  THEN GvtReturn(LockRelease(S), S.tok, "cache", t)
                  ELSE [S EXCEPT !.rec.pc = "refresh"], t)

\* The token endpoint answers the POST of _refresh_access_token.
RefreshResponse(t) ==
    /\ task[t].pc = "refresh"
    /\ \E o \in RefreshOutcomes :
         /\ o = "ok" => nextToken <= MaxTokens
         /\ LET S == Cur(t)
                Sok == [S EXCEPT !.tok = S.ntok, !.inst = S.ntok,
                                 !.exp = now + token_cache_padding,
                                 !.ntok = @ + 1]
                Sfail == [S EXCEPT !.tok = 0, !.inst = 0, !.exp = 0]
            IN  Commit(IF o = "ok"
                       THEN GvtReturn(LockRelease(Sok), Sok.tok, "refresh", t)
                       ELSE GvtReturn(LockRelease(Sfail), 0, "failed", t), t)

\* The backend answers one HTTP attempt of _request.
HttpResponse(t) ==
    /\ task[t].pc = "http"
    /\ \E o \in ApiOutcomes :
         LET S == ClearHistory(Cur(t))
             Serr == [S EXCEPT !.rec.last = o]
         IN  Commit(
               CASE o \in {"ok200", "ok204", "bad200"} ->
                      RequestReturn([S EXCEPT !.rec.reqRet = o], o, t)
                 [] IsAuthError(o) ->
                      LET Sa == [Serr EXCEPT !.rec.rejTok = S.rec.tok,
                                             !.rec.nAuth = @ + 1]
                      IN  IF LockFree(Sa.holder)
                          THEN AfterError(ClearToken(Sa), t)
                          ELSE [Sa EXCEPT !.waiters = Append(@, t),
                                          !.rec.pc = "inval_wait"]
                 [] o \in {"e500", "net"} -> AfterError(Serr, t)
                 [] OTHER ->
                      RequestReturn([Serr EXCEPT !.rec.reqRet = "none"], "none", t),
               t)

\* _request gets the lock it waited for after a 401/403 and clears the token.
InvalAcquired(t) ==
    /\ task[t].pc = "inval_wait"
    /\ lockHolder = t
    /\ Commit(AfterError(LockRelease(ClearToken(Cur(t))), t), t)

\* asyncio.sleep(wait_time) is over: the next attempt, with the same headers.
SleepDone(t) ==
    /\ task[t].pc = "sleep"
    /\ Commit([Cur(t) EXCEPT !.rec.attempt = @ + 1, !.rec.pc = "http",
                             !.rec.wait = 0], t)

\* The caller takes the result; the task is free for the next call.
Finish(t) ==
    /\ task[t].pc = "done"
    /\ Commit([Cur(t) EXCEPT !.rec = IdleRec], t)

\* ======================= main.py: the platform token =======================
\* Outcomes of the POST to the platform token endpoint (get_access_token).
LwTokenOutcomes == {"ok", "error", "no_token"}

\* Outcomes of one POST of send_message_to_user.  e403auth is a 403 whose body
\* carries code UNAUTHORIZED, e403 any other 403.
DeliverOutcomes == {"ok200", "e401", "e403auth", "e403", "e429", "e500", "net", "exc"}

\* access_token and current_time < (expires_at - 60).  LwCacheFreshNoMargin
\* is the faulty variant that uses the token up to its expiry.
LwCacheFreshNoMargin(tok, expires_at, current_time) ==
    tok # 0 /\ current_time < expires_at

LwCacheFresh(tok, expires_at, current_time) ==
    tok # 0 /\ current_time < expires_at - lw_margin

\* status_code == 401 or (status_code == 403 and error_code == "UNAUTHORIZED")
LwAuthError(o) == o \in {"e401", "e403auth"}

\* i < RETRY_COUNT_MAX.  The two others are faulty variants that allow one
\* and two iterations more.
\* The Retry-After header of a 429 response: absent, a string of digits with
\* value n, or any other string (empty, a date, a decimal).
HintSeconds == {0, 1, 3, 5, 100}
RetryAfterHeaders ==
    IF "one_delivery" \in scope
    THEN {[kind |-> "absent", n |-> 0], [kind |-> "other", n |-> 0]}
             \cup {[kind |-> "digits", n |-> h] : h \in HintSeconds}
    ELSE {NoHint}

Max(a, b) == IF a >= b THEN a ELSE b

\* wait_time = RETRY_WAIT_BASE * (2**i), raised to the hint when
\* retry_after and retry_after.isdigit().
WaitTimeIgnoresHint(i, hint) == RETRY_WAIT_BASE * 2^i
WaitTime(i, hint) ==
    LET wait_time == RETRY_WAIT_BASE * 2^i
    IN  IF hint.kind = "digits" THEN Max(wait_time, hint.n) ELSE wait_time

LwRetryAllowedOneMore(i) == i <= RETRY_COUNT_MAX
LwRetryAllowedTwoMore(i) == i <= RETRY_COUNT_MAX + 1
LwRetryAllowed(i) == i < RETRY_COUNT_MAX

\* get_access_token starts: current_time = time.time(), then GET token_key.
LwTokenEnter(S) ==
    [S EXCEPT !.rec.pc = "p_get_tok", !.rec.ct = now, !.rec.rtok = 0,
              !.rec.newTok = 0,
              !.rec.gsnap = S.lwInval, !.rec.gord = S.lwSeq,
              !.rec.gfrom = "none", !.rec.gval = 0,
              !.lwSeq = IF S.lwSeq = 1 THEN 2 ELSE S.lwSeq]

\* get_access_token returns val to send_message_to_user: None ends the
\* delivery, a token goes into the headers of the POST.
LwTokenReturn(S, val, from) ==
    LET S1 == [S EXCEPT !.rec.gval = val, !.rec.gfrom = from,
                        !.rec.ct = 0, !.rec.rtok = 0, !.rec.newTok = 0]
    IN  IF val = 0
        THEN OpReturn(S1, "none")
        ELSE [S1 EXCEPT !.rec.pc = "p_send", !.rec.tok = val]

\* After a failed POST that may be retried: sleep, or return resp.
LwAfterError(S, resp) ==
    IF LwRetryAllowed(S.rec.attempt)
    THEN [S EXCEPT !.rec.pc = "p_sleep", !.rec.last = "none",
                   !.rec.wait = WaitTime(S.rec.attempt, S.rec.hint)]
    ELSE OpReturn(S, resp)

\* send_message_to_user(content, user_id): attempt 0 asks for the token.
BeginDeliver(t) ==
    /\ "deliver" \in scope
    /\ task[t].pc = "idle"
    /\ Begin(LwTokenEnter([Cur(t) EXCEPT !.rec.op = "deliver"]), t)

\* await redis_client.get(token_key); a Redis error leaves get_access_token
\* and send_message_to_user as an exception.
LwGetToken(t) ==
    /\ task[t].pc = "p_get_tok"
    /\ \E up \in RedisOutcomes :
       LET S == Cur(t)
       IN  Commit(IF up
                  THEN [S EXCEPT !.rec.rtok = RGet(S.lwTok), !.rec.pc = "p_get_exp"]
                  ELSE OpReturn(S, "raised"), t)

\* await redis_client.get(expires_key), the cache test, and on a miss the
\* private key and the JWT (keyOk: both could be produced), then the POST.
LwGetExpires(t) ==
    /\ task[t].pc = "p_get_exp"
    /\ \E keyOk \in BOOLEAN, up \in RedisOutcomes :
         LET S == Cur(t)
         IN  Commit(IF ~up THEN OpReturn(S, "raised")
                    ELSE IF LwCacheFresh(S.rec.rtok, RGet(S.lwExp), S.rec.ct)
                         THEN LwTokenReturn(S, S.rec.rtok, "cache")
                         ELSE IF keyOk
                              THEN [S EXCEPT !.rec.pc = "p_post"]
                              ELSE LwTokenReturn(S, 0, "failed"), t)

\* How many platform tokens a run may issue: one for each attempt of the
\* delivery in a run of a single delivery.
LwTokenLimit == IF "one_delivery" \in scope THEN MaxLwTokens ELSE MaxTokens

\* The platform token endpoint answers.
LwTokenResponse(t) ==
    /\ task[t].pc = "p_post"
    /\ \E o \in LwTokenOutcomes :
         /\ o = "ok" => nextLwToken <= LwTokenLimit
         /\ LET S == Cur(t)
            IN  Commit(IF o = "ok"
                       THEN [S EXCEPT !.rec.newTok = S.nlw, !.nlw = @ + 1,
                                      !.rec.pc = "p_set_tok"]
                       ELSE LwTokenReturn(S, 0, "refused"), t)

\* The four Redis commands that store the new token; an error in any of
\* them is caught by "except Exception" and get_access_token returns None.
LwStoreToken(t) ==
    /\ task[t].pc = "p_set_tok"
    /\ \E up \in RedisOutcomes :
       LET S == Cur(t)
       IN  Commit(IF up
                  THEN [S EXCEPT !.lwTok = RSet(S.rec.newTok), !.rec.pc = "p_set_exp"]
                  ELSE LwTokenReturn(S, 0, "failed"), t)

LwStoreExpires(t) ==
    /\ task[t].pc = "p_set_exp"
    /\ \E up \in RedisOutcomes :
       LET S == Cur(t)
       IN  Commit(IF up
                  THEN [S EXCEPT !.lwExp = [RSet(S.rec.ct + expires_in) EXCEPT
                                               !.by = S.rec.newTok],
                                 !.rec.pc = "p_ttl_tok"]
                  ELSE LwTokenReturn(S, 0, "failed"), t)

LwExpireToken(t) ==
    /\ task[t].pc = "p_ttl_tok"
    /\ \E up \in RedisOutcomes :
       LET S == Cur(t)
       IN  Commit(IF up
                  THEN [S EXCEPT !.lwTok = RExpire(S.lwTok, expires_in + lw_ttl_extra),
                                 !.rec.pc = "p_ttl_exp"]
                  ELSE LwTokenReturn(S, 0, "failed"), t)

LwExpireExpires(t) ==
    /\ task[t].pc = "p_ttl_exp"
    /\ \E up \in RedisOutcomes :
       LET S == Cur(t)
       IN  Commit(IF up
                  THEN LwTokenReturn(
                         [S EXCEPT !.lwExp = RExpire(S.lwExp, expires_in + lw_ttl_extra)],
                         S.rec.newTok, "refresh")
                  ELSE LwTokenReturn(S, 0, "failed"), t)

\* The platform answers the POST of the message.
DeliverResponse(t) ==
    /\ task[t].pc = "p_send"
    /\ \E o \in DeliverOutcomes, retry_after \in RetryAfterHeaders :
         LET S == ClearHistory(Cur(t))
         IN  Commit(
               CASE o = "ok200" -> OpReturn(S, o)
                 [] LwAuthError(o) -> [S EXCEPT !.rec.pc = "p_del_tok", !.rec.last = o,
                                                !.rec.nAuth = @ + 1]
                 [] o = "e429" ->
                        LwAfterError([S EXCEPT !.rec.hint = retry_after], o)
                 [] o = "net" -> LwAfterError(S, "none")
                 [] o = "exc" -> OpReturn(S, "none")
                 [] OTHER -> OpReturn(S, o),
               t)

\* await redis_client.delete(token_key), inside the except block: a Redis
\* error leaves send_message_to_user as an exception.
LwDeleteToken(t) ==
    /\ task[t].pc = "p_del_tok"
    /\ \E up \in RedisOutcomes :
       LET S == Cur(t)
       IN  Commit(IF up
                  THEN [S EXCEPT !.lwInval = @ \cup ({RGet(S.lwTok), S.rec.tok} \ {0}),
                                 !.lwTok = NoKey, !.rec.pc = "p_del_exp"]
                  ELSE OpReturn(S, "raised"), t)

\* await redis_client.delete(expires_key): the invalidation is complete.
LwDeleteExpires(t) ==
    /\ task[t].pc = "p_del_exp"
    /\ \E up \in RedisOutcomes :
       LET S == Cur(t)
       IN  Commit(IF up
                  THEN LwAfterError([S EXCEPT !.lwExp = NoKey, !.lwSeq = 1,
                                              !.rec.tok = 0],
                                    S.rec.last)
                  ELSE OpReturn(S, "raised"), t)

\* asyncio.sleep(wait_time) is over: the next iteration asks for the token.
LwSleepDone(t) ==
    /\ task[t].pc = "p_sleep"
    /\ Commit(LwTokenEnter([Cur(t) EXCEPT !.rec.attempt = @ + 1,
                                          !.rec.hint = NoHint, !.rec.wait = 0]), t)

\* ================= salesforce_client.py: the agent session =================
\* Calls of the public methods overlap only in a run with concurrent callers.
CanCall(t) ==
    /\ task[t].pc = "idle"
    /\ "concurrent" \in scope \/ \A u \in Tasks \ {t} : task[u].pc \in {"idle", "done"}

\* next_sequence_id = sequence_id + 1.  NextSeqSkips is the faulty variant
\* in which the counter skips a value.
NextSeqSkips(v) == v + 2
NextSeq(v) == v + 1

\* if session_key and session_id
CachedSession(session_key, session_id) == session_key # 0 /\ session_id # 0

\* start_agent_session on a cache miss: a fresh key from uuid4(), then _request.
StartRequest(S, t) ==
    RequestEnter([S EXCEPT !.rec.k = S.nkey, !.nkey = @ + 1,
                           !.ok = S.nkey <= MaxSessions], t)

\* start_agent_session(agent_id, user_id): the instance-url check first.
BeginStart(t) ==
    /\ "start" \in scope
    /\ CanCall(t)
    /\ LET S == [Cur(t) EXCEPT !.rec.op = "start", !.rec.esnap = ended,
                               !.rec.held = IF RGet(sessId) \in created
                                            THEN <<RGet(sessKey), RGet(sessId)>>
                                            ELSE <<0, 0>>]
       IN  Begin(IF S.inst = 0 THEN GvtEnter(S, "prelude", t) ELSE AfterPrelude(S, t), t)

\* get_cached_session: GET session_key; an error counts as a miss.
StartGetKey(t) ==
    /\ task[t].pc = "gcs_key"
    /\ \E up \in RedisOutcomes :
         LET S == Cur(t)
         IN  Commit(IF up
                    THEN [S EXCEPT !.rec.ck = RGet(S.sessKey), !.rec.pc = "gcs_id"]
                    ELSE StartRequest([S EXCEPT !.rec.redisErr = TRUE], t), t)

\* get_cached_session: GET session_id, then the cached pair or a new session.
StartGetId(t) ==
    /\ task[t].pc = "gcs_id"
    /\ \E up \in RedisOutcomes :
         LET S == Cur(t)
         IN  Commit(IF ~up THEN StartRequest([S EXCEPT !.rec.redisErr = TRUE], t)
                    ELSE IF CachedSession(S.rec.ck, RGet(S.sessId))
                         THEN OpReturn([S EXCEPT !.rec.rsid = RGet(S.sessId),
                                                 !.rec.path = "cache"], "session")
                         ELSE StartRequest(S, t), t)

\* cache_session: six Redis commands; stored is the state after the one the
\* task is at.  An error ends cache_session, the session is returned all
\* the same.
CacheStep(t, at, stored, next) ==
    /\ task[t].pc = at
    /\ \E up \in RedisOutcomes :
         LET S == Cur(t)
             S1 == IF up THEN stored ELSE [S EXCEPT !.rec.redisErr = TRUE]
         IN  Commit(IF up /\ next # "return"
                    THEN [S1 EXCEPT !.rec.pc = next]
                    ELSE OpReturn([S1 EXCEPT !.created = @ \cup {S.rec.rsid}],
                                  "session"), t)

CacheSetKey(t) ==
    CacheStep(t, "cs_set_key",
              [Cur(t) EXCEPT !.sessKey = RSet(task[t].k)], "cs_set_id")

CacheSetId(t) ==
    CacheStep(t, "cs_set_id",
              [Cur(t) EXCEPT !.sessId = RSet(task[t].rsid)], "cs_ttl_key")

CacheExpireKey(t) ==
    CacheStep(t, "cs_ttl_key",
              [Cur(t) EXCEPT !.sessKey = RExpire(@, session_ttl)], "cs_ttl_id")

CacheExpireId(t) ==
    CacheStep(t, "cs_ttl_id",
              [Cur(t) EXCEPT !.sessId = RExpire(@, session_ttl)], "cs_set_seq")

CacheSetSeq(t) ==
    CacheStep(t, "cs_set_seq",
              [Cur(t) EXCEPT !.seqKey[task[t].rsid] = RSet(1)], "cs_ttl_seq")

CacheExpireSeq(t) ==
    CacheStep(t, "cs_ttl_seq",
              [Cur(t) EXCEPT !.seqKey[task[t].rsid] = RExpire(@, session_ttl)],
              "return")

\* send_sync_message_to_agent(session_id, text) without a sequence_id.
BeginSend(t) ==
    /\ "send" \in scope
    /\ CanCall(t)
    /\ \E s \in created :
         Begin([Cur(t) EXCEPT !.rec.op = "send", !.rec.sid = s,
                              !.rec.pc = "gs_get"], t)

\* get_sequence_id returns the stored counter, or 1 when it read none.
\* SequenceIdNoDefault is the faulty variant without the default.
SequenceIdNoDefault(v) == v
SequenceId(v) == IF v # 0 THEN v ELSE 1

\* get_sequence_id: the stored counter, 1 when there is none or on an error.
SendGetSeq(t) ==
    /\ task[t].pc = "gs_get"
    /\ \E up \in RedisOutcomes :
         LET S == Cur(t)
             v == IF up THEN RGet(S.seqKey[S.rec.sid]) ELSE 0
             sequence_id == SequenceId(v)
         IN  Commit([S EXCEPT !.rec.seqv = sequence_id, !.rec.pc = "us_set",
                              !.rec.redisErr = @ \/ ~up,
                              !.used[S.rec.sid] =
                                  Append(@, [id |-> sequence_id, hit |-> v # 0])], t)

\* update_sequence_id: SET the next value; an error ends the update.
SendSetSeq(t) ==
    /\ task[t].pc = "us_set"
    /\ \E up \in RedisOutcomes :
         LET S == Cur(t)
         IN  Commit(IF up
                    THEN [S EXCEPT !.seqKey[S.rec.sid] = RSet(NextSeq(S.rec.seqv)),
                                   !.rec.pc = "us_ttl"]
                    ELSE RequestEnter([S EXCEPT !.rec.redisErr = TRUE], t), t)

\* update_sequence_id: EXPIRE, then the message goes to _request.
SendExpireSeq(t) ==
    /\ task[t].pc = "us_ttl"
    /\ \E up \in RedisOutcomes :
         LET S == Cur(t)
         IN  Commit(IF up
                    THEN RequestEnter([S EXCEPT !.seqKey[S.rec.sid] =
                                                    RExpire(@, session_ttl)], t)
                    ELSE RequestEnter([S EXCEPT !.rec.redisErr = TRUE], t), t)

\* end_agent_session(session_id, agent_id, user_id): the DELETE goes to _request.
BeginEnd(t) ==
    /\ "end" \in scope
    /\ CanCall(t)
    /\ \E s \in created :
         Begin(RequestEnter([Cur(t) EXCEPT !.rec.op = "end", !.rec.sid = s], t), t)

\* delete_cached_session: three DELETEs; removed is the state after the one
\* the task is at.  An error ends the cleanup, True is returned all the same.
DeleteStep(t, at, removed, next) ==
    /\ task[t].pc = at
    /\ \E up \in RedisOutcomes :
         LET S == Cur(t)
             S1 == IF up THEN removed ELSE [S EXCEPT !.rec.redisErr = TRUE]
         IN  Commit(IF up /\ next # "return"
                    THEN [S1 EXCEPT !.rec.pc = next]
                    ELSE EndReturn(S1, "true"), t)

DeleteSeq(t) ==
    DeleteStep(t, "dcs_seq", [Cur(t) EXCEPT !.seqKey[task[t].sid] = NoKey], "dcs_key")

DeleteKey(t) ==
    DeleteStep(t, "dcs_key", [Cur(t) EXCEPT !.sessKey = NoKey], "dcs_id")

DeleteId(t) ==
    DeleteStep(t, "dcs_id", [Cur(t) EXCEPT !.sessId = NoKey], "return")

\* ======================= main.py: the webhook handler =======================
\* SIGNATURE_VERIFICATION_MODE; any value other than strict and skip acts as warn.
SignatureModes == {"strict", "warn", "skip"}

\* The request body: not JSON, not UTF-8, JSON that is no object, a text
\* message with a user id, a text message without one, another message
\* type, a postback, any other event type.
Bodies == {"bad_json", "bad_encoding", "not_object", "text", "text_no_user",
           "non_text", "postback", "other"}

\* The X-Works-Signature header: the HMAC of the body under the bot secret,
\* another value, or absent.
Signatures == {"valid", "mismatch", "missing"}

\* validate_request: skip mode accepts everything; otherwise a missing
\* header or a missing secret fails, and then the HMAC decides.
\* ValidateRequestNoSkip is the faulty variant without the skip mode.
ValidateRequestNoSkip(mode, signature, secret) ==
    signature # "missing" /\ secret /\ signature = "valid"

\* ValidateRequestLenient is the faulty variant that lets a request
\* without signature header pass.
ValidateRequestLenient(mode, signature, secret) ==
    \/ mode = "skip"
    \/ signature = "missing"
    \/ signature # "missing" /\ secret /\ signature = "valid"

ValidateRequest(mode, signature, secret) ==
    \/ mode = "skip"
    \/ signature # "missing" /\ secret /\ signature = "valid"

\* The fixed reply of lines 497 and 516.
FallbackReplyComposed == "composed"
FallbackReply == "fallback"

\* res_content: the text of the message is reply_to_send.
ResContentOther(reply) == "none"
ResContent(reply) == reply

\* if not session_result
SessionFailed(rsid) == rsid = 0

\* callback returns its HTTP answer.
CbRespond(S, code) ==
    [S EXCEPT !.rec = [IdleRec EXCEPT !.pc = "done", !.op = "callback",
                                      !.cb = [S.rec.cb EXCEPT !.stage = "responded",
                                                              !.http = code]]]

\* The handler calls a method: its coroutine starts with fresh locals.
CbCall(S, op) == [S EXCEPT !.rec = [IdleRec EXCEPT !.op = op, !.cb = S.rec.cb]]

\* await sf_client.start_agent_session(agent_id, user_id)
StartEnter(S, t) ==
    LET S0 == CbCall([S EXCEPT !.rec.cb.nStart = @ + 1], "start")
        S1 == [S0 EXCEPT !.rec.esnap = S.ended,
                         !.rec.held = IF RGet(S.sessId) \in S.created
                                      THEN <<RGet(S.sessKey), RGet(S.sessId)>>
                                      ELSE <<0, 0>>]
    IN  IF S1.inst = 0 THEN GvtEnter(S1, "prelude", t) ELSE AfterPrelude(S1, t)

\* await sf_client.send_sync_message_to_agent(session_id, text)
SendEnter(S) ==
    LET S0 == CbCall([S EXCEPT !.rec.cb.nSend = @ + 1], "send")
    IN  [S0 EXCEPT !.rec.sid = S.rec.cb.session_id, !.rec.pc = "gs_get",
                   !.rec.cb.sent = S.rec.cb.text]

\* await send_message_to_user(res_content, user_id)
DeliverEnter(S) ==
    LwTokenEnter(CbCall([S EXCEPT !.rec.cb.nDeliver = @ + 1,
                                  !.rec.cb.content = ResContent(S.rec.cb.reply)],
                        "deliver"))

\* await sf_client.end_agent_session(session_id, agent_id, user_id)
EndEnter(S, t) ==
    LET S0 == CbCall([S EXCEPT !.rec.cb.nEnd = @ + 1], "end")
    IN  RequestEnter([S0 EXCEPT !.rec.sid = S.rec.cb.session_id], t)

\* event_type == "message", then message_type == "text" and user_id.
\* IsTextFromUserAnyText is the faulty variant that does not ask for the user id.
IsTextFromUserAnyText(body) == body \in {"text", "text_no_user"}
IsTextFromUser(body) == body = "text"

\* callback up to its first await after the checks: the signature, the
\* body, the kind of event.
CallbackEnter(S, mode, signature, secret, body, phrase) ==
    LET valid == ValidateRequest(mode, signature, secret)
        recorded == "requests" \in scope
        S0 == [S EXCEPT !.rec.op = "callback",
                        !.rec.cb = [NoCallback EXCEPT
                            !.stage = "running",
                            !.mode = IF recorded THEN mode ELSE "none",
                            !.signature = IF recorded THEN signature ELSE "none",
                            !.sig = CASE valid -> "ok"
                                      [] mode = "strict" -> "failed_strict"
                                      [] OTHER -> "failed_warn",
                            !.event = IF valid THEN body ELSE "none",
                            !.phrase = phrase]]
    IN  CASE ~valid /\ mode = "strict" -> CbRespond(S0, 401)
          [] ~valid -> CbRespond(S0, 200)
          [] body = "bad_json" -> CbRespond(S0, 400)
          [] body = "bad_encoding" -> CbRespond(S0, 500)
          [] IsTextFromUser(body) -> [S0 EXCEPT !.rec.pc = "cb_summarize"]
          [] OTHER -> CbRespond(S0, 200)

\* POST /callback arrives.
BeginCallback(t) ==
    /\ "callback" \in scope
    /\ CanCall(t)
    /\ \E mode \in SignatureModes, signature \in Signatures,
          secret \in BOOLEAN, body \in Bodies,
          phrase \in BOOLEAN :
         Begin(CallbackEnter(Cur(t), mode, signature, secret, body, phrase), t)

\* How a call of summarize_message ends: with a summary, without a client,
\* with an exception of the API, with an empty text, with a content block
\* that is no text.
SummarizerOutcomes == {"summary", "no_client", "exception", "empty", "non_text"}

\* What summarize_message returns: the stripped summary, else user_message.
\* SummarizeMessageEmpty is the faulty variant that returns an empty text
\* on a failure.
SummarizeMessageEmpty(outcome) == IF outcome = "summary" THEN "summary" ELSE "empty"
SummarizeMessage(outcome) == IF outcome = "summary" THEN "summary" ELSE "raw"

\* summarize_message returned (it never raises): start or find the session.
CbSummarized(t) ==
    /\ task[t].pc = "cb_summarize"
    /\ \E outcome \in SummarizerOutcomes :
         LET recorded == "texts" \in scope
             S == [Cur(t) EXCEPT
                     !.rec.cb.summarizer = IF recorded THEN outcome ELSE "none",
                     !.rec.cb.text = IF recorded THEN SummarizeMessage(outcome)
                                     ELSE "none"]
         IN  Commit(StartEnter(S, t), t)

\* start_agent_session returned: without a session the fixed reply is
\* delivered, with one the message goes to the agent.
CbAfterStart(t) ==
    /\ task[t].pc = "cb_ret"
    /\ task[t].op = "start"
    /\ LET S == Cur(t)
       IN  Commit(IF SessionFailed(S.rec.rsid)
                  THEN DeliverEnter([S EXCEPT !.rec.cb.reply = FallbackReply])
                  ELSE SendEnter([S EXCEPT !.rec.cb.session_id = S.rec.rsid]), t)

\* send_sync_message_to_agent returned: None gives the fixed reply; any
\* JSON it returned is searched for the reply text (which raises on a
\* malformed body) and goes to the composer.
CbAfterSend(t) ==
    /\ task[t].pc = "cb_ret"
    /\ task[t].op = "send"
    /\ \E wellFormed \in BOOLEAN :
         LET S == [Cur(t) EXCEPT !.rec.cb.agent = task[t].result]
             Sc == CbCall(S, "callback")
         IN  Commit(CASE S.rec.result = "none" ->
                           DeliverEnter([S EXCEPT !.rec.cb.reply = FallbackReply])
                      [] wellFormed ->
                           [Sc EXCEPT !.rec.pc = "cb_compose",
                                      !.rec.cb.nCompose = @ + 1]
                      [] OTHER -> [Sc EXCEPT !.rec.pc = "cb_claude"], t)

\* generate_response_from_agent_reply returned (it never raises).
CbComposed(t) ==
    /\ task[t].pc = "cb_compose"
    /\ Commit(DeliverEnter([Cur(t) EXCEPT !.rec.cb.reply = "composed"]), t)

\* The except branch of line 543: call_anthropic_api returned a text, or
\* nothing and the fixed reply is used.
CbClaude(t) ==
    /\ task[t].pc = "cb_claude"
    /\ \E reply \in {"claude", FallbackReply} :
         Commit(DeliverEnter([Cur(t) EXCEPT !.rec.cb.reply = reply]), t)

\* send_message_to_user returned or raised.  Only when it returned None is
\* the text searched for a termination phrase; session_id is not assigned
\* when no session was started, and the NameError is caught at line 595.
CbAfterDeliver(t) ==
    /\ task[t].pc = "cb_ret"
    /\ task[t].op = "deliver"
    /\ LET S == [Cur(t) EXCEPT !.rec.cb.delivery = task[t].result]
       IN  Commit(IF S.rec.result = "none" /\ S.rec.cb.phrase
                     /\ S.rec.cb.session_id # 0
                  THEN EndEnter(S, t)
                  ELSE CbRespond(S, 200), t)

\* end_agent_session returned.
CbAfterEnd(t) ==
    /\ task[t].pc = "cb_ret"
    /\ task[t].op = "end"
    /\ Commit(CbRespond(Cur(t), 200), t)

\* ---- callback: the reply text in the agent's response (lines 519-533) ----
\* Texts are sequences of characters; the line feed is one of them.
NL == "\n"
Texts == {<<>>, <<"a">>, <<"b">>}

\* An entry of "messages", or the value of "message": an object with a
\* text, or one without.
Fragments == [has : {TRUE}, text : Texts] \cup {[has |-> FALSE, text |-> <<>>]}
Absent == [has |-> FALSE, text |-> <<"absent">>]

\* The JSON of a 200 response: "message" absent or an object, "messages"
\* absent or empty (<<>>) or a list of objects.
AgentResponses ==
    [message : Fragments \cup {Absent},
     messages : UNION {[1..n -> Fragments] : n \in 0..MaxFragments}]

\* agent_reply += msg["text"] + "\n".  FragmentTextBare is the faulty
\* variant that appends the text alone.
FragmentTextBare(msg) == msg.text
FragmentText(msg) == msg.text \o <<NL>>

\* The loop over agent_response["messages"]; entries without text are skipped.
RECURSIVE ConcatFragments(_)
ConcatFragments(msgs) ==
    IF msgs = <<>> THEN <<>>
    ELSE (IF Head(msgs).has THEN FragmentText(Head(msgs)) ELSE <<>>)
         \o ConcatFragments(Tail(msgs))

\* agent_reply as lines 519-533 compute it.
AgentReply(resp) ==
    IF resp.message # Absent /\ resp.message.has
    THEN resp.message.text
    ELSE IF resp.messages # <<>>
         THEN ConcatFragments(resp.messages)
         ELSE <<>>

\* The handler extracts the reply text from a response.
ExtractAgentReply ==
    /\ "extract" \in scope
    /\ \E resp \in AgentResponses :
         evaluated' = [fn |-> "agent_reply", arg |-> resp, val |-> AgentReply(resp)]
    /\ UNCHANGED <<backendVars, platformVars, sessionVars, task, now, ticks,
                   scope, opsLeft>>

\* ============================ environment ============================
\* A Redis key whose TTL is over at time is gone.
Purge(k, time) == IF Live(k, time) THEN k ELSE NoKey

\* Time passes.
TickLens == IF "one_delivery" \in scope THEN {TickShort, TickLen} ELSE {TickLen}

Tick ==
    /\ ticks < MaxTicks
    /\ \E d \in TickLens :
         /\ now' = now + d
         /\ lwTok' = Purge(lwTok, now + d)
         /\ lwExp' = Purge(lwExp, now + d)
         /\ sessKey' = Purge(sessKey, now + d)
         /\ sessId' = Purge(sessId, now + d)
         /\ seqKey' = [s \in SessionIds |-> Purge(seqKey[s], now + d)]
    /\ ticks' = ticks + 1
    /\ UNCHANGED <<backendVars, nextLwToken, lwInvalidated, lwSeq, nextKey,
                   created, used, ended, task, scope, opsLeft, evaluated>>

\* The state after startup: nothing cached, no task running.
InitState ==
    /\ access_token = 0
    /\ instance_url = 0
    /\ token_expires_at = 0
    /\ lockHolder = 0
    /\ lockWaiters = <<>>
    /\ task = [t \in Tasks |-> IdleRec]
    /\ now = StartTime
    /\ ticks = 0
    /\ nextToken = 1
    /\ invalidated = {}
    /\ gvtSeq = 0
    /\ lwTok = NoKey
    /\ lwExp = NoKey
    /\ nextLwToken = 1
    /\ lwInvalidated = {}
    /\ lwSeq = 0
    /\ sessKey = NoKey
    /\ sessId = NoKey
    /\ seqKey = [s \in SessionIds |-> NoKey]
    /\ nextKey = 1
    /\ created = {}
    /\ used = [s \in SessionIds |-> <<>>]
    /\ ended = {}
    /\ evaluated = NoEvaluation

\* The I/O of _request and _refresh_access_token completes.
RequestStep(t) ==
    \/ RefreshResponse(t)
    \/ HttpResponse(t)
    \/ SleepDone(t)

\* A task that waited for _token_lock gets it.
LockStep(t) ==
    \/ LockAcquired(t)
    \/ InvalAcquired(t)

BackendStep(t) == RequestStep(t) \/ LockStep(t)

PlatformStep(t) ==
    \/ LwGetToken(t)
    \/ LwGetExpires(t)
    \/ LwTokenResponse(t)
    \/ LwStoreToken(t)
    \/ LwStoreExpires(t)
    \/ LwExpireToken(t)
    \/ LwExpireExpires(t)
    \/ DeliverResponse(t)
    \/ LwDeleteToken(t)
    \/ LwDeleteExpires(t)
    \/ LwSleepDone(t)

SessionStartStep(t) ==
    \/ StartGetKey(t)
    \/ StartGetId(t)
    \/ CacheSetKey(t)
    \/ CacheSetId(t)
    \/ CacheExpireKey(t)
    \/ CacheExpireId(t)
    \/ CacheSetSeq(t)
    \/ CacheExpireSeq(t)

SessionSendStep(t) ==
    \/ SendGetSeq(t)
    \/ SendSetSeq(t)
    \/ SendExpireSeq(t)

SessionEndStep(t) ==
    \/ DeleteSeq(t)
    \/ DeleteKey(t)
    \/ DeleteId(t)

\* The tasks call the backend through _request (query).
NextBackend ==
    \/ \E t \in Tasks : BeginQuery(t)
    \/ \E t \in Tasks : BackendStep(t)
    \/ \E t \in Tasks : Finish(t)
    \/ Tick
InitBackend == InitState /\ scope = {"query", "causes"} /\ opsLeft = MaxCallsBackend
SpecBackend == InitBackend /\ [][NextBackend]_vars

\* The tasks deliver messages (send_message_to_user).
NextPlatform ==
    \/ \E t \in Tasks : BeginDeliver(t)
    \/ \E t \in Tasks : PlatformStep(t)
    \/ \E t \in Tasks : Finish(t)
    \/ Tick
InitPlatform ==
    InitState /\ scope = {"deliver", "redis_errors"} /\ opsLeft = MaxCallsPlatform
SpecPlatform == InitPlatform /\ [][NextPlatform]_vars

\* One delivery from its call to its return, with a token for every attempt.
NextDeliver ==
    \/ \E t \in Tasks : BeginDeliver(t)
    \/ \E t \in Tasks : PlatformStep(t)
    \/ \E t \in Tasks : Finish(t)
    \/ Tick
InitDeliver ==
    InitState /\ scope = {"deliver", "redis_errors", "one_delivery"} /\ opsLeft = 1
SpecDeliver == InitDeliver /\ [][NextDeliver]_vars

\* The same run when every external call returns: each await of the
\* delivery (a Redis command, an HTTP answer, the end of a sleep) completes.
SpecDeliverLive ==
    InitDeliver /\ [][NextDeliver]_vars /\ \A t \in Tasks : WF_vars(PlatformStep(t))

\* Two overlapping backend calls in which every external call returns: the
\* token endpoint and the backend answer, every sleep ends, and the event
\* loop resumes a task that has been handed the lock.
\* The clock stands still: the cached token goes only by invalidation.
NextLock ==
    \/ \E t \in Tasks : BeginQuery(t)
    \/ \E t \in Tasks : BackendStep(t)
    \/ \E t \in Tasks : Finish(t)
InitLock == InitState /\ scope = {"query"} /\ opsLeft = MaxCallsLock
SpecLock ==
    InitLock /\ [][NextLock]_vars /\ \A t \in Tasks : WF_vars(BackendStep(t))

\* Either credential is exercised.
NextCred ==
    \/ \E t \in Tasks : BeginQuery(t)
    \/ \E t \in Tasks : BeginDeliver(t)
    \/ \E t \in Tasks : BackendStep(t)
    \/ \E t \in Tasks : PlatformStep(t)
    \/ \E t \in Tasks : Finish(t)
    \/ Tick
SpecCred == (InitBackend \/ InitPlatform) /\ [][NextCred]_vars

\* Either token manager is called: concurrent backend calls, or one
\* delivery in whose course the platform token comes close to its expiry.
SpecValid == (InitBackend \/ InitDeliver) /\ [][NextCred]_vars

\* Concurrent webhook deliveries start, use and end agent sessions, within
\* the lifetime of the cached records and with Redis answering.
NextSession ==
    \/ \E t \in Tasks : BeginStart(t)
    \/ \E t \in Tasks : BeginSend(t)
    \/ \E t \in Tasks : BeginEnd(t)
    \/ \E t \in Tasks : SessionStartStep(t)
    \/ \E t \in Tasks : SessionSendStep(t)
    \/ \E t \in Tasks : SessionEndStep(t)
    \/ \E t \in Tasks : BackendStep(t)
    \/ \E t \in Tasks : Finish(t)
InitSession ==
    /\ InitState
    /\ scope = {"start", "send", "end", "concurrent"}
    /\ opsLeft = MaxCallsSession
SpecSession == InitSession /\ [][NextSession]_vars

\* One caller at a time starts a session and sends messages; Redis answers,
\* and no task ever has to wait for _token_lock.
NextSeqRun ==
    \/ \E t \in Tasks : BeginStart(t)
    \/ \E t \in Tasks : BeginSend(t)
    \/ \E t \in Tasks : SessionStartStep(t)
    \/ \E t \in Tasks : SessionSendStep(t)
    \/ \E t \in Tasks : RequestStep(t)
    \/ \E t \in Tasks : Finish(t)
    \/ Tick
InitSeq == InitState /\ scope = {"start", "send"} /\ opsLeft = MaxCallsSeq
SpecSeq == InitSeq /\ [][NextSeqRun]_vars

CallbackStep(t) ==
    \/ CbSummarized(t)
    \/ CbAfterStart(t)
    \/ CbAfterSend(t)
    \/ CbComposed(t)
    \/ CbClaude(t)
    \/ CbAfterDeliver(t)

\* A webhook delivery handled from arrival to answer; Redis commands can fail.
NextCallback ==
    \/ \E t \in Tasks : BeginCallback(t)
    \/ \E t \in Tasks : CallbackStep(t)
    \/ \E t \in Tasks : CbAfterEnd(t)
    \/ \E t \in Tasks : SessionStartStep(t)
    \/ \E t \in Tasks : SessionSendStep(t)
    \/ \E t \in Tasks : SessionEndStep(t)
    \/ \E t \in Tasks : RequestStep(t)
    \/ \E t \in Tasks : PlatformStep(t)
    \/ \E t \in Tasks : Finish(t)
InitCallback ==
    InitState /\ scope = {"callback", "redis_errors"} /\ opsLeft = MaxCallsCallback
SpecCallback == InitCallback /\ [][NextCallback]_vars

\* Webhook deliveries handled one after the other while Redis is down: of
\* the Redis commands only the first one of each method is ever issued.
NextOutage ==
    \/ \E t \in Tasks : BeginCallback(t)
    \/ \E t \in Tasks : CallbackStep(t)
    \/ \E t \in Tasks : StartGetKey(t)
    \/ \E t \in Tasks : CacheSetKey(t)
    \/ \E t \in Tasks : SendGetSeq(t)
    \/ \E t \in Tasks : SendSetSeq(t)
    \/ \E t \in Tasks : RequestStep(t)
    \/ \E t \in Tasks : LwGetToken(t)
    \/ \E t \in Tasks : Finish(t)
    \/ Tick
InitOutage ==
    InitState /\ scope = {"callback", "redis_down"} /\ opsLeft = MaxCallsOutage
SpecOutage == InitOutage /\ [][NextOutage]_vars

\* A webhook delivery with Redis answering, the texts recorded.
InitSummary ==
    InitState /\ scope = {"callback", "texts"} /\ opsLeft = MaxCallsCallback
SpecSummary == InitSummary /\ [][NextCallback]_vars

\* Webhook deliveries up to the end of the checks on the request (the
\* signature, the body, the kind of event), with the mode and the signature
\* header of each request recorded.
NextVerify ==
    \/ \E t \in Tasks : BeginCallback(t)
    \/ \E t \in Tasks : Finish(t)
InitVerify ==
    InitState /\ scope = {"callback", "requests"} /\ opsLeft = MaxCallsVerify
SpecVerify == InitVerify /\ [][NextVerify]_vars

\* Webhook deliveries up to the end of the checks on the request, arriving
\* at a fresh process or after one conversation: the backend token of that
\* conversation is in the client, the platform token, the session and its
\* counter are in Redis.
InitConversed ==
    /\ access_token = 1
    /\ instance_url = 1
    /\ token_expires_at = StartTime + token_cache_padding
    /\ lockHolder = 0
    /\ lockWaiters = <<>>
    /\ task = [t \in Tasks |-> IdleRec]
    /\ now = StartTime
    /\ ticks = 0
    /\ nextToken = 2
    /\ invalidated = {}
    /\ gvtSeq = 0
    /\ lwTok = [RSet(1) EXCEPT !.ttl = StartTime + expires_in + lw_ttl_extra]
    /\ lwExp = [RSet(StartTime + expires_in) EXCEPT
                    !.ttl = StartTime + expires_in + lw_ttl_extra, !.by = 1]
    /\ nextLwToken = 2
    /\ lwInvalidated = {}
    /\ lwSeq = 0
    /\ sessKey = [RSet(1) EXCEPT !.ttl = StartTime + session_ttl]
    /\ sessId = [RSet(1) EXCEPT !.ttl = StartTime + session_ttl]
    /\ seqKey = [s \in SessionIds |->
                    IF s = 1 THEN [RSet(2) EXCEPT !.ttl = StartTime + session_ttl]
                    ELSE NoKey]
    /\ nextKey = 2
    /\ created = {1}
    /\ used = [s \in SessionIds |-> IF s = 1 THEN <<[id |-> 1, hit |-> TRUE]>> ELSE <<>>]
    /\ ended = {}
    /\ evaluated = NoEvaluation
InitScreen ==
    (InitState \/ InitConversed) /\ scope = {"callback", "requests"}
        /\ opsLeft = MaxCallsVerify
SpecScreen == InitScreen /\ [][NextVerify]_vars

\* The extraction of the reply text, applied to every response.
InitExtract == InitState /\ scope = {"extract"} /\ opsLeft = 0
SpecExtract == InitExtract /\ [][ExtractAgentReply]_vars

\* ============================== claims ==============================
Running(pcs) == {t \in Tasks : task[t].pc \in pcs}

\* C1: at most one token-endpoint POST of _refresh_access_token is in
\* flight at any moment, whatever the interleaving of the tasks calling
\* _get_valid_access_token.
C1_SingleBackendRefresh == Cardinality(Running({"refresh"})) <= 1

\* C1 witness: one task is refreshing while another one waits for the lock.
C1_Witness == Running({"refresh"}) # {} /\ Running({"lock_wait"}) # {}

\* C2 (as claimed): at most one token exchange with the platform OAuth
\* endpoint is in flight at any moment.  get_access_token takes no lock.
C2_SinglePlatformRefresh == Cardinality(Running({"p_post"})) <= 1

\* A token call (_get_valid_access_token, get_access_token) of task t has
\* just returned; it started after some token had been invalidated.
ReturnedAfterInvalidation(t) == task[t].gfrom # "none" /\ task[t].gsnap # {}

\* C3 (as claimed): the next token call that starts after an invalidation
\* makes a refresh attempt of its own (it does not answer from the cache).
C3_NextCallRefreshes ==
    \A t \in Tasks : (task[t].gfrom # "none" /\ task[t].gord = 1) =>
                        task[t].gfrom # "cache"

\* C3 (amended): a token call that starts after a token was invalidated
\* never returns that token; what it returns is None or a token that was not
\* invalidated when it started (from its own refresh, or from the cache
\* when another task's refresh stored it).
C3_InvalidatedNeverReturned ==
    \A t \in Tasks : ReturnedAfterInvalidation(t) =>
                        (task[t].gval = 0 \/ task[t].gval \notin task[t].gsnap)

\* C3 witness: a backend token call that started after an invalidation
\* returns a token, and it is not the invalidated one.
C3_Witness ==
    \E t \in Tasks : /\ ReturnedAfterInvalidation(t)
                     /\ task[t].op = "query"
                     /\ task[t].gval # 0
                     /\ task[t].gval \notin task[t].gsnap

\* C4 (as claimed): the retry that follows a 401/403 carries a token other
\* than the rejected one.  The headers are built once, before the loop.
C4_RetryCarriesNewToken ==
    \A t \in Tasks : (task[t].pc = "http" /\ task[t].rejTok # 0) =>
                        task[t].tok # task[t].rejTok

Ids(s) == [i \in 1..Len(used[s]) |-> used[s][i].id]

\* No task is inside send_sync_message_to_agent.
NoSendRunning == \A t \in Tasks : task[t].op = "send" => task[t].pc = "done"

\* C6 (as claimed): within one session the messages carry pairwise distinct
\* sequenceIds, whatever the interleaving of the calls.  The counter is read
\* and written back in two separate Redis commands.
C6_SequenceIdsDistinct ==
    \A s \in SessionIds : \A i, j \in 1..Len(used[s]) :
        i # j => Ids(s)[i] # Ids(s)[j]

C8_EndRemovesRecords ==
    \A t \in Tasks : (task[t].pc = "done" /\ task[t].op = "end") =>
                        ~task[t].leftover

\* C9 (as claimed): a start_agent_session call that begins after
\* end_agent_session has returned for the pair does not return the ended
\* session from the cache.
C9_EndedSessionNotReused ==
    \A t \in Tasks :
        (task[t].pc = "done" /\ task[t].op = "start" /\ task[t].path = "cache") =>
            task[t].rsid \notin task[t].esnap

\* C10 (as claimed): a start_agent_session call made while the cache holds
\* a session for the pair returns that session, without a start request.
C10_CachedSessionReturned ==
    \A t \in Tasks :
        (/\ task[t].pc = "done" /\ task[t].op = "start"
         /\ CachedSession(task[t].held[1], task[t].held[2])
         /\ <<RGet(sessKey), RGet(sessId)>> = task[t].held) =>
            (task[t].path = "cache" /\ task[t].rsid = task[t].held[2])

\* C11 (as claimed): while the cache holds a session for the pair, a
\* start_agent_session call sends nothing to the backend, neither a token
\* request nor a start request, whatever the state of the token.
C11_CachedStartContactsNoBackend ==
    \A t \in Tasks :
        (/\ task[t].op = "start"
         /\ CachedSession(task[t].held[1], task[t].held[2])
         /\ <<RGet(sessKey), RGet(sessId)>> = task[t].held) =>
            task[t].pc \notin {"refresh", "http"}


\* C12 (as claimed): the handler answers with a success acknowledgement
\* whatever the body holds; only a signature failure in strict mode is
\* answered with an error status.
C12_AlwaysAcknowledged ==
    \A t \in Tasks :
        (task[t].op = "callback" /\ task[t].pc = "done") =>
            \/ task[t].cb.http = 200
            \/ task[t].cb.sig = "failed_strict"

\* The handler is past send_sync_message_to_agent.
SendOver(t) == task[t].cb.nSend = 1 /\ task[t].op # "send"

\* C13 (as claimed): when the send to the agent failed (it returned the
\* body of an error response, or nothing), the fixed fallback reply is
\* delivered and the reply composer is not invoked.
C13_SendFailureGivesFallback ==
    \A t \in Tasks :
        (SendOver(t) /\ task[t].cb.agent \in {"error_body", "none"}
         /\ task[t].cb.nDeliver = 1) =>
            /\ task[t].cb.content = FallbackReply
            /\ task[t].cb.nCompose = 0

\* The handler is past start_agent_session, which returned no session.
StartFailedOver(t) ==
    /\ task[t].cb.nStart = 1
    /\ task[t].op # "start"
    /\ task[t].cb.session_id = 0

\* C14: when start_agent_session returns no session, no message is sent to
\* the agent, the composer is not invoked, and the fixed fallback reply is
\* what send_message_to_user is called with, once.
C14_StartFailureGivesFallback ==
    \A t \in Tasks :
        StartFailedOver(t) =>
            /\ task[t].cb.nSend = 0
            /\ task[t].cb.nCompose = 0
            /\ task[t].cb.nDeliver = 1
            /\ task[t].cb.content = "fallback"

\* A handler has answered after start_agent_session returned no session.
C14_Witness ==
    \E t \in Tasks :
        /\ StartFailedOver(t)
        /\ task[t].pc = "done"
        /\ task[t].cb.http = 200

\* C15 (as claimed): when the text holds a termination phrase and a session
\* is open, end_agent_session has been called for it by the time the handler
\* answers, whether the delivery succeeded or failed.
C15_PhraseEndsSession ==
    \A t \in Tasks :
        (/\ task[t].op = "callback" /\ task[t].pc = "done"
         /\ task[t].cb.phrase
         /\ task[t].cb.session_id # 0
         /\ task[t].cb.nDeliver = 1) =>
            task[t].cb.nEnd = 1

\* C18: a verified text message with a user id leads to exactly one call of
\* send_message_to_user, made with the reply the handler settled on; the
\* handler does not answer before it.
C18_OneDeliveryOfReply ==
    \A t \in Tasks :
        task[t].cb.event = "text" =>
            /\ task[t].cb.nDeliver <= 1
            /\ (task[t].cb.stage = "responded" => task[t].cb.nDeliver = 1)
            /\ (task[t].cb.nDeliver = 1 =>
                    /\ task[t].cb.reply \in {"fallback", "composed", "claude"}
                    /\ task[t].cb.content = task[t].cb.reply)

\* A handler has answered a text message after composing a reply from the
\* agent's answer.
C18_Witness ==
    \E t \in Tasks :
        /\ task[t].cb.event = "text"
        /\ task[t].cb.stage = "responded"
        /\ task[t].cb.content = "composed"


C17_DeliveryTerminates ==
    /\ [](\A t \in Tasks : task[t].op = "deliver" => task[t].attempt <= RETRY_COUNT_MAX)
    /\ \A t \in Tasks : (task[t].op = "deliver" /\ task[t].pc # "done")
                            ~> (task[t].op = "deliver" /\ task[t].pc = "done")

\* A delivery is at the POST of its last iteration after three failures
\* that were not all auth rejections.
C17_Witness ==
    \E t \in Tasks : /\ task[t].op = "deliver"
                     /\ task[t].pc = "p_send"
                     /\ task[t].attempt = RETRY_COUNT_MAX
                     /\ task[t].nAuth < RETRY_COUNT_MAX


\* C19 (as claimed): while every Redis command fails, the handling of a
\* text message ends with send_message_to_user having sent the reply (no
\* store error leaves it) and with the 200 acknowledgement.
C19_OutageStillDelivers ==
    \A t \in Tasks :
        (task[t].cb.event = "text" /\ task[t].cb.stage = "responded") =>
            /\ task[t].cb.delivery # "raised"
            /\ task[t].cb.http = 200

\* C20: while every Redis command fails, start_agent_session never answers
\* from the cache and raises nothing; when the backend accepts the start
\* request it returns the id of the session just created; the send that
\* follows uses sequenceId 1 and raises nothing.
C20_OutageSessionsUncached ==
    /\ \A t \in Tasks :
         (task[t].op = "start" /\ task[t].pc = "cb_ret") =>
            /\ task[t].result # "raised"
            /\ task[t].path # "cache"
            /\ task[t].path = "created" =>
                  /\ task[t].rsid = nextKey - 1
                  /\ task[t].rsid \notin task[t].esnap
                  /\ task[t].result = "session"
    /\ \A t \in Tasks :
         (task[t].op = "send" /\ task[t].pc = "cb_ret") => task[t].result # "raised"
    /\ \A s \in SessionIds :
         \A i \in 1..Len(used[s]) : used[s][i].id = 1 /\ ~used[s][i].hit

\* The second session of an outage has been started and its send has
\* returned the agent's reply.
C20_Witness ==
    \E t \in Tasks : /\ task[t].op = "send"
                     /\ task[t].pc = "cb_ret"
                     /\ task[t].result = "reply"
                     /\ task[t].cb.session_id = MaxSessions
                     /\ Len(used[MaxSessions]) = 1
                     /\ Len(used[1]) = 1

\* C21 (as claimed, platform part): when the token POST of get_access_token
\* fails, the call returns None and no record of the token is left in Redis.
C21_FailedRefreshLeavesNoRecord ==
    \A t \in Tasks :
        (task[t].op = "deliver" /\ task[t].pc = "done" /\ task[t].gfrom = "refused") =>
            /\ task[t].result = "none"
            /\ RGet(lwTok) = 0
            /\ RGet(lwExp) = 0

\* C22 (as claimed, platform part): when send_message_to_user returns a 401
\* or 403 response, whatever the error code in its body, the token the
\* POST carried is no longer in Redis.
C22_AuthErrorInvalidates ==
    \A t \in Tasks :
        (/\ task[t].op = "deliver" /\ task[t].pc = "done"
         /\ task[t].result \in {"e401", "e403auth", "e403"}) =>
            /\ RGet(lwTok) = 0
            /\ RGet(lwExp) = 0

\* C23 (as claimed): within one session the value get_sequence_id returns
\* is never lower than a value an earlier message of the session used.
C23_SequenceNeverGoesBack ==
    \A s \in SessionIds : \A i, j \in 1..Len(used[s]) :
        i < j => Ids(s)[i] <= Ids(s)[j]

\* The backend token a task holds: the one its _request sends, or the one
\* its last _get_valid_access_token call returned.
HeldToken(t) == IF task[t].tok # 0 THEN task[t].tok ELSE task[t].gval

\* C24: a refresh is posted only by the holder of the lock and only while no
\* valid token is cached; a task that waited for the lock and found a valid
\* token returned it without a refresh; and callers hold different tokens
\* only when the older one was invalidated or has expired in between.
C24_WaitersShareRefresh ==
    /\ \A t \in Tasks :
         task[t].pc = "refresh" =>
            /\ lockHolder = t
            /\ ~TokenValid(access_token, token_expires_at, now)
    /\ \A t \in Tasks :
         (task[t].waited /\ task[t].gfrom = "cache") =>
            /\ task[t].gval # 0
            /\ task[t].gval = access_token \/ task[t].gval \in invalidated \/ ticks > 0
    /\ \A t, u \in Tasks :
         (HeldToken(t) # 0 /\ HeldToken(u) # 0 /\ HeldToken(t) < HeldToken(u)) =>
            HeldToken(t) \in invalidated \/ ticks > 0

\* One task refreshed, another waited for the lock meanwhile and returned
\* the same token from the cache.
C24_Witness ==
    \E t, u \in Tasks :
        /\ task[t].gfrom = "refresh"
        /\ task[u].waited
        /\ task[u].gfrom = "cache"
        /\ task[u].gval = task[t].gval
        /\ task[u].gval = access_token

\* The keys the program has in Redis: the platform token and its expiry,
\* the session key and id, the counters.  None is for the backend token.
StoreKeys == {lwTok, lwExp, sessKey, sessId} \cup {seqKey[s] : s \in SessionIds}

\* C25 (as claimed, backend part): while the backend manager holds a token
\* obtained by a successful refresh, Redis holds a record written by that
\* refresh.
C25_BackendRefreshPersisted ==
    access_token # 0 => \E k \in StoreKeys : Live(k, now)

C28_SummarizerFailureKeepsRawText ==
    \A t \in Tasks :
        LET cb == task[t].cb
        IN  cb.summarizer \in SummarizerOutcomes \ {"summary"} =>
                /\ cb.text = "raw"
                /\ cb.nStart = 1
                /\ cb.nSend = 1 => cb.sent = "raw"
                /\ cb.session_id # 0 /\ task[t].op \notin {"start", "callback"} => cb.nSend = 1
                /\ cb.stage = "responded" => cb.nDeliver = 1

\* After a summarizer exception the raw text went to the agent and the
\* reply composed from the agent's answer was delivered.
C28_Witness ==
    \E t \in Tasks :
        /\ task[t].cb.summarizer = "exception"
        /\ task[t].cb.sent = "raw"
        /\ task[t].cb.stage = "responded"
        /\ task[t].cb.content = "composed"
        /\ task[t].cb.delivery = "ok200"

\* The texts of the entries of msgs that have one, in order.
RECURSIVE TextsOf(_)
TextsOf(msgs) ==
    IF msgs = <<>> THEN <<>>
    ELSE (IF Head(msgs).has THEN <<Head(msgs).text>> ELSE <<>>) \o TextsOf(Tail(msgs))

\* texts joined with sep between consecutive ones.
RECURSIVE Join(_, _)
Join(texts, sep) ==
    IF texts = <<>> THEN <<>>
    ELSE IF Len(texts) = 1 THEN Head(texts)
    ELSE Head(texts) \o sep \o Join(Tail(texts), sep)

\* The response has the single-message shape / the list shape.
SingleShape(resp) == resp.message # Absent /\ resp.message.has
ListShape(resp) == ~SingleShape(resp) /\ resp.messages # <<>>

\* C29 (as claimed): the extracted text is message.text for the single
\* shape and, for the list shape, the texts of the fragments joined with
\* newline separators.
C29_ReplyJoinedWithSeparators ==
    evaluated.fn = "agent_reply" =>
        /\ SingleShape(evaluated.arg) => evaluated.val = evaluated.arg.message.text
        /\ ListShape(evaluated.arg) =>
              evaluated.val = Join(TextsOf(evaluated.arg.messages), <<NL>>)

\* C29 (amended): the extracted text is message.text for the single shape
\* and, for the list shape, the texts of the fragments in order, each one
\* followed by a newline: the joined texts and one more newline at the end
\* when a fragment has a text, the empty text when none has.
C29_ReplyTextsTerminated ==
    evaluated.fn = "agent_reply" =>
        /\ SingleShape(evaluated.arg) => evaluated.val = evaluated.arg.message.text
        /\ ListShape(evaluated.arg) =>
              LET texts == TextsOf(evaluated.arg.messages)
              IN  evaluated.val = IF texts = <<>> THEN <<>>
                                  ELSE Join(texts, <<NL>>) \o <<NL>>

\* A list of three entries, the second without a text, gave "a\nb\n".
C29_Witness ==
    /\ evaluated.fn = "agent_reply"
    /\ ListShape(evaluated.arg)
    /\ Len(evaluated.arg.messages) = 3
    /\ ~evaluated.arg.messages[2].has
    /\ evaluated.val = <<"a", NL, "b", NL>>

\* C30: a 429 answer at attempt i < RETRY_COUNT_MAX makes send_message_to_user
\* wait max(RETRY_WAIT_BASE * 2^i, h) seconds when the Retry-After header is a
\* number h, and RETRY_WAIT_BASE * 2^i seconds when the header is absent or
\* not a number; a 429 answer at the last attempt is returned with no wait.
C30_RateLimitWait ==
    \A t \in Tasks :
        /\ (task[t].pc = "p_sleep" /\ task[t].hint.kind # "none") =>
               /\ task[t].attempt < RETRY_COUNT_MAX
               /\ task[t].wait =
                     IF task[t].hint.kind = "digits"
                     THEN IF RETRY_WAIT_BASE * 2^(task[t].attempt) >= task[t].hint.n
                          THEN RETRY_WAIT_BASE * 2^(task[t].attempt)
                          ELSE task[t].hint.n
                     ELSE RETRY_WAIT_BASE * 2^(task[t].attempt)
        /\ (task[t].pc \in {"done", "cb_ret"} /\ task[t].result = "e429") =>
               /\ task[t].attempt = RETRY_COUNT_MAX
               /\ task[t].wait = 0

\* The third attempt is rate limited with a hint of 5 seconds, above the
\* back-off of 4 seconds: the coroutine sleeps 5 seconds.
C30_Witness ==
    \E t \in Tasks :
        /\ task[t].pc = "p_sleep"
        /\ task[t].attempt = 2
        /\ task[t].hint = [kind |-> "digits", n |-> 5]
        /\ task[t].wait = 5

\* C31: between any two steps of any coroutine (every await is a step
\* boundary) _access_token is set exactly when _instance_url is set, after
\* refreshes, failed refreshes and invalidations in any order.
C31_TokenAndUrlTogether ==
    (access_token # 0) <=> (instance_url # 0)

\* A token was invalidated after a 401/403 and a later refresh has stored a
\* new token together with its instance url.
C31_Witness ==
    /\ invalidated # {}
    /\ access_token # 0
    /\ access_token \notin invalidated
    /\ instance_url = access_token

C32_WitnessException ==
    \E t \in Tasks :
        /\ task[t].op = "query"
        /\ task[t].pc = "done"
        /\ task[t].last = "exc"
        /\ task[t].attempt = 0
        /\ task[t].reqRet = "none"

\* The events the handler ignores: a text message without source.userId, a
\* message that is no text, a postback, any other event type.
IgnoredEvents == {"text_no_user", "non_text", "postback", "other"}

\* C33: the handling of an ignored event is one step that answers 200,
\* calls neither the summarizer nor a session, agent or delivery method,
\* and leaves the backend token, the platform token and the session
\* records as they were.
C33_IgnoredEventHasNoEffect ==
    [][\A t \in Tasks :
          (task[t].pc = "idle" /\ task'[t].cb.event \in IgnoredEvents) =>
              /\ task'[t].pc = "done"
              /\ task'[t].cb.stage = "responded"
              /\ task'[t].cb.http = 200
              /\ task'[t].cb.nStart = 0 /\ task'[t].cb.nSend = 0
              /\ task'[t].cb.nCompose = 0 /\ task'[t].cb.nDeliver = 0
              /\ task'[t].cb.nEnd = 0
              /\ UNCHANGED <<backendVars, platformVars, sessionVars>>]_vars

\* A postback that arrived while a session and both tokens were cached has
\* been acknowledged, and they are still cached.
C33_Witness ==
    \E t \in Tasks :
        /\ task[t].pc = "done"
        /\ task[t].cb.event = "postback"
        /\ task[t].cb.http = 200
        /\ RGet(sessId) = 1 /\ RGet(lwTok) = 1 /\ access_token = 1

\* C34: when _request clears the cached backend token after a 401/403, the
\* token it clears is the one the rejected request carried, so that a token
\* stored by a later refresh is never discarded for the rejection of an
\* older one.
C34_InvalidationSparesNewerToken ==
    [][\A t \in Tasks :
          (/\ task[t].pc \in {"http", "inval_wait"}
           /\ task'[t] # task[t]
           /\ access_token # 0
           /\ access_token' = 0) => access_token = task[t].tok]_vars

\* C35: whenever get_access_token answers from the cache, the expiry it
\* compared with the clock was stored by the refresh that stored the token
\* it returns.
C35_CachedTokenWithItsExpiry ==
    [][\A t \in Tasks :
          (task[t].pc = "p_get_exp" /\ task'[t].gfrom = "cache")
              => lwExp.by = task[t].rtok]_vars

\* C36: whenever the session_key record and the session_id record of the
\* pair are both in the store, one start_agent_session call wrote both (the
\* key it drew belongs to the session the backend opened for it).
C36_SessionRecordsFromOneStart ==
    (RGet(sessKey) # 0 /\ RGet(sessId) # 0) => RGet(sessKey) = RGet(sessId)

\* The start_agent_session calls whose start-session request is under way.
StartsInFlight ==
    {t \in Tasks : task[t].op = "start" /\ task[t].pc \in {"http", "sleep", "inval_wait"}}

\* C37: while no session of the pair is cached, at most one
\* start_agent_session call has a start-session request under way.
C37_OneStartWhileUncached ==
    ~CachedSession(RGet(sessKey), RGet(sessId)) => Cardinality(StartsInFlight) <= 1

\* C38: once send_sync_message_to_agent has handed its message to _request,
\* the stored counter of the session is one above the sequenceId of the
\* message, at every attempt and every wait of _request.
C38_CounterAdvancedBeforeRequest ==
    \A t \in Tasks :
        (/\ task[t].op = "send"
         /\ task[t].pc \in {"lock_wait", "refresh", "http", "inval_wait", "sleep"})
            => RGet(seqKey[task[t].sid]) = task[t].seqv + 1

LockWaiting(t) == task[t].pc \in {"lock_wait", "inval_wait"} /\ lockHolder # t

\* C40: the task that holds _token_lock never waits for it, a lock that is
\* held is held by a task inside one of the two "async with" blocks,
\* every task that waits for the lock gets it, and its call
\* then comes to its end.
C40_TokenLockNoDeadlock ==
    /\ [](\A t \in Tasks :
            /\ lockHolder = t =>
                   /\ \A i \in 1..Len(lockWaiters) : lockWaiters[i] # t
                   /\ task[t].pc \in {"refresh", "lock_wait", "inval_wait"}
            /\ (lockHolder = 0) => lockWaiters = <<>>)
    /\ \A t \in Tasks : LockWaiting(t) ~> (lockHolder = t)
    /\ \A t \in Tasks : LockWaiting(t) ~> (task[t].pc = "done")

\* One task waits for the lock in the invalidation of _request while the
\* other holds it for a refresh.
C40_Witness ==
    \E t \in Tasks :
        /\ task[t].pc = "inval_wait"
        /\ lockHolder \in Tasks \ {t}
        /\ task[lockHolder].pc = "refresh"

====
